---- MODULE Spec2Model ----
(***************************************************************************)
(* SmartDict (src/smart_dict.py): a dict wrapper whose keys are path       *)
(* expressions.  The model keeps the wrapped dictionary, the instance      *)
(* options and a record of the last get()/set() call with its outcome.     *)
(*                                                                         *)
(* Python values are tagged records:                                       *)
(*   None, ints, strings (sequences of one-character strings), lists,      *)
(*   tuples and dicts (functions from scalar keys to values).              *)
(* Object identity is modelled by `links`: the places where a value the    *)
(* caller holds and the wrapped dictionary are one and the same object.    *)
(***************************************************************************)
EXTENDS Integers, Sequences, FiniteSets, TLC

VARIABLES
  dict,                 \* self.__dict
  as_copy,              \* self.__as_copy
  raise_none,           \* self.__raise_none
  nested_delimiter,     \* self.__nested_delimiter
  many_keys_delimiter,  \* self.__many_keys_delimiter
  call,                 \* the last get()/set() call: its arguments
  res,                  \* ... and its outcome
  before,               \* self.__dict as it was when that call started
  held,                 \* the object the caller holds from that call
  links,                \* {[h, d]}: held at h is the object stored at d
  nops,                 \* calls made so far
  nmut                  \* caller-side mutations so far

vars == <<dict, as_copy, raise_none, nested_delimiter, many_keys_delimiter,
          call, res, before, held, links, nops, nmut>>

-----------------------------------------------------------------------------
(* Bounds of the exploration *)
MaxOps == 1
MaxMutations == 1
\* the longest path, in steps, given to the parser on its own
MaxSegments == 3

-----------------------------------------------------------------------------
(* Python values *)
None == [t |-> "none"]
NoDefault == [t |-> "nodefault"]
IntV(n) == [t |-> "int", v |-> n]
StrV(s) == [t |-> "str", v |-> s]
ListV(xs) == [t |-> "list", v |-> xs]
TupleV(xs) == [t |-> "tuple", v |-> xs]
DictV(f) == [t |-> "dict", v |-> f]

DEFAULT_NESTED_DELIMITER == ":"
DEFAULT_MANY_KEYS_DELIMITER == "/"

Digits == {"0", "1", "2", "3", "4", "5", "6", "7", "8", "9"}

DigitVal(c) ==
  CASE c = "0" -> 0 [] c = "1" -> 1 [] c = "2" -> 2 [] c = "3" -> 3
    [] c = "4" -> 4 [] c = "5" -> 5 [] c = "6" -> 6 [] c = "7" -> 7
    [] c = "8" -> 8 [] c = "9" -> 9

DigitChar(n) ==
  CASE n = 0 -> "0" [] n = 1 -> "1" [] n = 2 -> "2" [] n = 3 -> "3"
    [] n = 4 -> "4" [] n = 5 -> "5" [] n = 6 -> "6" [] n = 7 -> "7"
    [] n = 8 -> "8" [] n = 9 -> "9"

RECURSIVE DigitsToNat(_)
DigitsToNat(s) ==
  IF Len(s) = 0 THEN 0
  ELSE 10 * DigitsToNat(SubSeq(s, 1, Len(s) - 1)) + DigitVal(s[Len(s)])

\* "{}".format(i) for a natural number i
RECURSIVE NatToDigits(_)
NatToDigits(n) ==
  IF n < 10 THEN <<DigitChar(n)>>
  ELSE NatToDigits(n \div 10) \o <<DigitChar(n % 10)>>

\* pyutils.atomic.to_int: the integer a value denotes, else None
to_int(x) ==
  IF x.t = "int" THEN x
  ELSE IF x.t = "str" THEN
    LET s == x.v
        signed == Len(s) > 0 /\ s[1] \in {"-", "+"}
        body == IF signed THEN Tail(s) ELSE s
    IN IF Len(body) > 0 /\ \A i \in 1..Len(body) : body[i] \in Digits
       THEN IntV(IF signed /\ s[1] = "-" THEN 0 - DigitsToNat(body)
                ELSE DigitsToNat(body))
       ELSE None
  ELSE None

MinOf(S) == CHOOSE x \in S : \A y \in S : x <= y

\* sep in s
Contains(s, sep) == \E i \in 1..Len(s) : s[i] = sep

\* s.split(sep), sep one character
RECURSIVE Split(_, _)
Split(s, sep) ==
  IF ~Contains(s, sep) THEN <<s>>
  ELSE LET i == MinOf({j \in 1..Len(s) : s[j] = sep})
       IN <<SubSeq(s, 1, i - 1)>> \o Split(SubSeq(s, i + 1, Len(s)), sep)

\* s.replace(old, new): every occurrence, left to right
RECURSIVE ReplaceAll(_, _, _)
ReplaceAll(s, old, new) ==
  LET at == {i \in 1..(Len(s) - Len(old) + 1) :
               SubSeq(s, i, i + Len(old) - 1) = old}
  IN IF at = {} \/ Len(old) = 0 THEN s
     ELSE LET i == MinOf(at)
          IN SubSeq(s, 1, i - 1) \o new
               \o ReplaceAll(SubSeq(s, i + Len(old), Len(s)), old, new)

\* s.replace(old, new, 1)
Replace1(s, old, new) ==
  LET at == {i \in 1..(Len(s) - Len(old) + 1) :
               SubSeq(s, i, i + Len(old) - 1) = old}
  IN IF at = {} THEN s
     ELSE LET i == MinOf(at)
          IN SubSeq(s, 1, i - 1) \o new \o SubSeq(s, i + Len(old), Len(s))

-----------------------------------------------------------------------------
(* SmartDict.__split_key_selectors *)

\* re.finditer(r"(?:\{(.*?)\})", key): the <<open, close>> positions of the
\* non-overlapping matches, left to right
RECURSIVE FindSelectors(_, _)
FindSelectors(key, from) ==
  LET opens == {i \in from..Len(key) :
                  key[i] = "{" /\ \E j \in (i + 1)..Len(key) : key[j] = "}"}
  IN IF opens = {} THEN <<>>
     ELSE LET o == MinOf(opens)
              c == MinOf({j \in (o + 1)..Len(key) : key[j] = "}"})
          IN <<<<o, c>>>> \o FindSelectors(key, c + 1)

\* the inner loop with the values kept as the strings they are written as
RECURSIVE SelectorDict_NoCoercion(_, _, _)
SelectorDict_NoCoercion(selectors, n, dictionary) ==
  IF n > Len(selectors) THEN [ok |-> TRUE, dictionary |-> dictionary]
  ELSE LET kv == Split(selectors[n], ":")
       IN IF Len(kv) # 2 THEN [ok |-> FALSE, dictionary |-> dictionary]
          ELSE SelectorDict_NoCoercion(selectors, n + 1,
                 [x \in (DOMAIN dictionary) \cup {StrV(kv[1])} |->
                    IF x = StrV(kv[1]) THEN StrV(kv[2]) ELSE dictionary[x]])

\* the inner loop: one "k:v" clause after the other into `dictionary`;
\* k, v = selector.split(":") raises ValueError unless there are two parts
RECURSIVE SelectorDict(_, _, _)
SelectorDict(selectors, n, dictionary) ==
  IF n > Len(selectors) THEN [ok |-> TRUE, dictionary |-> dictionary]
  ELSE LET kv == Split(selectors[n], ":")
       IN IF Len(kv) # 2 THEN [ok |-> FALSE, dictionary |-> dictionary]
          ELSE LET v == IF to_int(StrV(kv[2])) # None THEN to_int(StrV(kv[2]))
                        ELSE StrV(kv[2])
                   k == StrV(kv[1])
               IN SelectorDict(selectors, n + 1,
                    [x \in (DOMAIN dictionary) \cup {k} |->
                       IF x = k THEN v ELSE dictionary[x]])

EmptyDict == [x \in {} |-> None]

RECURSIVE SplitLoop(_, _, _, _, _)
SplitLoop(orig, matches, i, key, dictionary_selectors) ==
  IF i >= Len(matches)
  THEN [ok |-> TRUE, exc |-> "", key |-> key, selectors |-> dictionary_selectors]
  ELSE LET m == matches[i + 1]
           whole_selector == SubSeq(orig, m[1] + 1, m[2] - 1)
           d == SelectorDict(Split(whole_selector, ","), 1, EmptyDict)
       IN IF ~d.ok
          THEN [ok |-> FALSE, exc |-> "ValueError", key |-> key,
                selectors |-> dictionary_selectors]
          ELSE SplitLoop(orig, matches, i + 1,
                 Replace1(key, <<"{">> \o whole_selector \o <<"}">>,
                          <<"{">> \o NatToDigits(i) \o <<"}">>),
                 Append(dictionary_selectors, d.dictionary))

split_key_selectors(key) ==
  SplitLoop(key, FindSelectors(key, 1), 0, key, <<>>)

\* re.match(r"\{(\d)\}", key)
IsPlaceholder(key) ==
  Len(key) >= 3 /\ key[1] = "{" /\ key[2] \in Digits /\ key[3] = "}"

-----------------------------------------------------------------------------
(* Inputs: the path expressions *)

Join(steps) ==
  LET RECURSIVE J(_)
      J(k) == IF k = 1 THEN steps[1]
              ELSE J(k - 1) \o <<DEFAULT_NESTED_DELIMITER>> \o steps[k]
  IN J(Len(steps))

kA == <<"a">>
kB == <<"b">>
kC == <<"c">>
kN == <<"n">>
kT == <<"t">>
kX == <<"x">>
k0 == <<"0">>
k5 == <<"5">>
kAB == <<"a", "/", "b">>
kNA == <<"n", "/", "a">>
selHit == <<"{", "n", ":", "1", "}">>
selBoth == <<"{", "n", ":", "1", ",", "a", ":", "7", "}">>
selMiss == <<"{", "n", ":", "9", "}">>
selAny == <<"{", "a", ":", "7", "}">>

Paths ==
  { Join(p) : p \in
    { <<kA>>, <<kX>>, <<kA, kB>>, <<kX, kB>>, <<kA, kB, kC>>,
      <<kT, k0>>, <<kT, k5>>, <<kT, k0, kN>>, <<kT, k5, kN>>,
      <<kT, selHit>>, <<kT, selHit, kA>>, <<kT, selBoth, kN>>,
      <<kT, selAny, kN>>,
      <<kT, selMiss>>, <<kT, selMiss, kA>>,
      <<kAB>>, <<kX, kAB>>, <<kT, kNA>>, <<kT, k0, kNA>>,
      <<kT, selHit, kNA>>, <<kT, selMiss, kNA>>,
      <<kAB, kC>>, <<kX, kAB, kC>>, <<kT, selMiss, kAB, kC>>,
      <<kT, selHit \o <<"/">> \o kB, kN>>, <<selHit>>, <<<<"{", "0", "}">>>> } }

\* split_key_selectors of every path of Paths, computed once
Parsed == [p \in Paths |-> split_key_selectors(p)]
Parse(key) == IF key \in Paths THEN Parsed[key] ELSE split_key_selectors(key)

-----------------------------------------------------------------------------
(* Single-level access *)

IsSeq(x) == x.t \in {"list", "tuple"}
IsComposite(x) == x.t \in {"dict", "list", "tuple"}

Ok(v) == [ok |-> TRUE, exc |-> "", val |-> v]
Err(e) == [ok |-> FALSE, exc |-> e, val |-> None]

\* the position (from 1) a Python index denotes in a sequence of length n
Pos(i, n) == IF i < 0 THEN n + i + 1 ELSE i + 1

\* collection[key]
GetItem(collection, key) ==
  CASE collection.t = "dict" ->
         IF key \in DOMAIN collection.v THEN Ok(collection.v[key])
         ELSE Err("KeyError")
    [] collection.t \in {"list", "tuple", "str"} ->
         IF key.t # "int" THEN Err("TypeError")
         ELSE IF Pos(key.v, Len(collection.v)) \in 1..Len(collection.v)
         THEN Ok(IF collection.t = "str"
                 THEN StrV(<<collection.v[Pos(key.v, Len(collection.v))]>>)
                 ELSE collection.v[Pos(key.v, Len(collection.v))])
         ELSE Err("IndexError")
    [] OTHER -> Err("TypeError")

\* the key under which GetItem found the item, indices counted from 0
NormKey(collection, key) ==
  IF IsSeq(collection) /\ key.t = "int"
  THEN IntV(Pos(key.v, Len(collection.v)) - 1)
  ELSE key

\* __access with an explicit default of None taken for no default at all
access_NoneIsNoDefault(collection, key, raise_none_, default) ==
  LET r == GetItem(collection, key)
      unset == default = NoDefault \/ default = None
  IN IF r.ok
     THEN [raised |-> FALSE, exc |-> "", val |-> r.val, missed |-> FALSE]
     ELSE IF unset /\ raise_none_
     THEN [raised |-> TRUE, exc |-> r.exc, val |-> None, missed |-> TRUE]
     ELSE [raised |-> FALSE, exc |-> r.exc,
           val |-> IF unset THEN None ELSE default,
           missed |-> TRUE]

\* SmartDict.__access; `missed` tells that collection[key] failed and was
\* turned into None or the default
access(collection, key, raise_none_, default) ==
  LET r == GetItem(collection, key)
  IN IF r.ok
     THEN [raised |-> FALSE, exc |-> "", val |-> r.val, missed |-> FALSE]
     ELSE IF default = NoDefault /\ raise_none_
     THEN [raised |-> TRUE, exc |-> r.exc, val |-> None, missed |-> TRUE]
     ELSE [raised |-> FALSE, exc |-> r.exc,
           val |-> IF default = NoDefault THEN None ELSE default,
           missed |-> TRUE]

\* pyutils.collection.index_of: the index of the first element of the
\* sequence whose fields equal every entry of pattern, -1 if there is none.
\* What it does with something that is no sequence is not known: nonseq
\* says whether that is "nomatch" or a TypeError.
Matches(e, pattern) ==
  /\ e.t = "dict"
  /\ \A k \in DOMAIN pattern : k \in DOMAIN e.v /\ e.v[k] = pattern[k]

index_of(value, pattern, nonseq) ==
  IF IsSeq(value)
  THEN LET hits == {i \in 1..Len(value.v) : Matches(value.v[i], pattern)}
       IN [ok |-> TRUE, idx |-> IF hits = {} THEN 0 - 1 ELSE MinOf(hits) - 1]
  ELSE [ok |-> nonseq = "nomatch", idx |-> 0 - 1]

\* the value at location loc (a sequence of keys) of root
RECURSIVE ValueAt(_, _)
ValueAt(root, loc) ==
  IF Len(loc) = 0 THEN root
  ELSE ValueAt(GetItem(root, loc[1]).val, Tail(loc))

-----------------------------------------------------------------------------
(* SmartDict.get *)

\* what the walk has seen so far (not program state):
\*   selMiss: the step at which a selector found no match in a sequence
\*   missAt, missKind, missVal: the first step whose access failed, whether
\*     it is a "plain" or a "fanout" step, and what access made of it
\*   nonseq: index_of was given something that is no sequence
\* and, of a set: wrote (the assignment was made), walked (the loop over
\* keys[:-1] ran to its end), ptr and loc (the pointer it ended with and
\* the place of that object in the dictionary)
Seen0 ==
  [selMiss |-> 0, missAt |-> 0, missKind |-> "", missVal |-> None,
   nonseq |-> FALSE]

NoteMiss(g, i, kind, a) ==
  IF a.missed /\ g.missAt = 0
  THEN [g EXCEPT !.missAt = i, !.missKind = kind, !.missVal = a.val]
  ELSE g

Returned(v, at, g) ==
  [outcome |-> "returned", exc |-> "", ret |-> v, at |-> at, seen |-> g,
   wrote |-> FALSE, walked |-> FALSE, ptr |-> None, loc |-> <<>>]
Raised(e, g) ==
  [outcome |-> "raised", exc |-> e, ret |-> None, at |-> {}, seen |-> g,
   wrote |-> FALSE, walked |-> FALSE, ptr |-> None, loc |-> <<>>]

\* tuple(self.__access(value, subkey, ...) for subkey in subkeys)
RECURSIVE GetMany(_, _, _, _, _, _, _, _, _)
GetMany(value, loc, intree, subkeys, j, acc, at, c, g) ==
  IF j > Len(subkeys) THEN Returned(TupleV(acc), at, g)
  ELSE LET a == access(value, StrV(subkeys[j]), c.raise_none, c.default)
           g2 == NoteMiss(g, c.step, "fanout", a)
       IN IF a.raised THEN Raised(a.exc, g2)
          ELSE GetMany(value, loc, intree, subkeys, j + 1, Append(acc, a.val),
                 IF intree /\ ~a.missed /\ IsComposite(a.val)
                 THEN at \cup {[h |-> <<IntV(j - 1)>>,
                                d |-> Append(loc, StrV(subkeys[j]))]}
                 ELSE at,
                 c, g2)

\* the loop of get over keys, from step i on; value is the working value,
\* loc its place in the dictionary while intree
RECURSIVE GetLoop(_, _, _, _, _, _, _)
GetLoop(keys, i, value, loc, intree, c, g) ==
  IF i > Len(keys)
  THEN Returned(value,
         IF intree /\ IsComposite(value) THEN {[h |-> <<>>, d |-> loc]} ELSE {},
         g)
  ELSE
    LET key == keys[i]
        Step(k, g1) ==
          LET k2 == IF IsSeq(value) THEN to_int(k) ELSE k
              a == access(value, k2, c.raise_none, c.default)
              g2 == NoteMiss(g1, i, "plain", a)
          IN IF a.raised THEN Raised(a.exc, g2)
             ELSE GetLoop(keys, i + 1, a.val,
                    Append(loc, NormKey(value, k2)), intree /\ ~a.missed, c, g2)
    IN IF IsPlaceholder(key)
       THEN IF DigitVal(key[2]) >= Len(c.selectors) THEN Raised("IndexError", g)
            ELSE LET s == index_of(value, c.selectors[DigitVal(key[2]) + 1],
                                   c.nonseq)
                     g1 == IF ~IsSeq(value) THEN [g EXCEPT !.nonseq = TRUE]
                           ELSE IF s.idx = 0 - 1 /\ g.selMiss = 0
                           THEN [g EXCEPT !.selMiss = i] ELSE g
                 IN IF ~s.ok THEN Raised("TypeError", g1)
                    ELSE IF s.idx = 0 - 1
                    THEN IF c.raise_none THEN Returned(None, {}, g1)
                         ELSE Raised("KeyError", g1)
                    ELSE Step(IntV(s.idx), g1)
       ELSE IF Contains(key, c.many_keys_delimiter)
       THEN IF i < Len(keys) THEN Raised("KeyError", g)
            ELSE GetMany(value, loc, intree, Split(key, c.many_keys_delimiter),
                         1, <<>>, {}, [c EXCEPT !.step = i], g)
       ELSE Step(StrV(key), g)

\* get that walks the stored dictionary itself whatever the copy option is
GetOp_NoDeepCopy(d, key, default, copy_, raise_none_, nd, mkd, nonseq) ==
  IF key = None
  THEN Returned(d, {[h |-> <<>>, d |-> <<>>]}, Seen0)
  ELSE LET p == Parse(key.v)
       IN IF ~p.ok THEN Raised(p.exc, Seen0)
          ELSE GetLoop(Split(p.key, nd), 1, d, <<>>, TRUE,
                 [selectors |-> p.selectors, raise_none |-> raise_none_,
                  default |-> default, many_keys_delimiter |-> mkd,
                  nonseq |-> nonseq, step |-> 0],
                 Seen0)

\* get(key, default, copy=, raise_none=, nested_delimiter=,
\*     many_keys_delimiter=) on the dictionary d; key is None or a string.
\* copy.deepcopy gives an equal value that shares nothing with d: no links.
GetOp(d, key, default, copy_, raise_none_, nd, mkd, nonseq) ==
  IF key = None
  THEN Returned(d, IF copy_ THEN {} ELSE {[h |-> <<>>, d |-> <<>>]}, Seen0)
  ELSE LET p == Parse(key.v)
       IN IF ~p.ok THEN Raised(p.exc, Seen0)
          ELSE LET r == GetLoop(Split(p.key, nd), 1, d, <<>>, TRUE,
                          [selectors |-> p.selectors, raise_none |-> raise_none_,
                           default |-> default, many_keys_delimiter |-> mkd,
                           nonseq |-> nonseq, step |-> 0],
                          Seen0)
               IN IF copy_ THEN [r EXCEPT !.at = {}] ELSE r

-----------------------------------------------------------------------------
(* SmartDict.set *)

\* collection[key] = v: the collection afterwards
SetItem(collection, key, v) ==
  CASE collection.t = "dict" ->
         Ok(DictV([x \in (DOMAIN collection.v) \cup {key} |->
                     IF x = key THEN v ELSE collection.v[x]]))
    [] collection.t = "list" ->
         IF key.t # "int" THEN Err("TypeError")
         ELSE IF Pos(key.v, Len(collection.v)) \in 1..Len(collection.v)
         THEN Ok(ListV([collection.v EXCEPT
                          ![Pos(key.v, Len(collection.v))] = v]))
         ELSE Err("IndexError")
    [] OTHER -> Err("TypeError")

\* root after the object at location loc has become new
RECURSIVE UpdateAt(_, _, _)
UpdateAt(root, loc, new) ==
  IF Len(loc) = 0 THEN new
  ELSE LET child == UpdateAt(GetItem(root, loc[1]).val, Tail(loc), new)
       IN IF root.t = "dict"
          THEN DictV([root.v EXCEPT ![loc[1]] = child])
          ELSE [t |-> root.t, v |-> [root.v EXCEPT ![loc[1].v + 1] = child]]

\* SmartDict.__copy: the value to store, and whether it is the very object
\* passed in (shared) or a deep copy of it
copy(value, as_copy_, self_as_copy) ==
  LET eff == as_copy_ \/ self_as_copy
  IN [val |-> value, shared |-> ~eff]

\* for i, subkey in enumerate(subkeys): pointer[subkey] = copy(value[i])
RECURSIVE SetMany(_, _, _, _, _, _, _, _, _)
SetMany(d, ptr, loc, subkeys, value, j, at, c, g) ==
  IF j > Len(subkeys)
  THEN [res |-> [Returned(None, at, g) EXCEPT !.wrote = TRUE], dict |-> d]
  ELSE LET cp == copy(value.v[j], c.as_copy, c.self_as_copy)
           s == SetItem(ptr, StrV(subkeys[j]), cp.val)
       IN IF ~s.ok THEN [res |-> Raised(s.exc, g), dict |-> d]
          ELSE SetMany(UpdateAt(d, loc, s.val), s.val, loc, subkeys, value,
                 j + 1,
                 IF cp.shared /\ IsComposite(cp.val)
                 THEN at \cup {[h |-> <<IntV(j - 1)>>,
                                d |-> Append(loc, StrV(subkeys[j]))]}
                 ELSE at,
                 c, g)

\* the assignment of set with the arity of a fan-out group checked only once
\* the subkeys that have a value are written
SetLast_LateArity(d, ptr, loc, last_key, value, c, g) ==
  IF Contains(last_key, c.many_keys_delimiter)
  THEN IF ~IsSeq(value) THEN [res |-> Raised("TypeError", g), dict |-> d]
       ELSE LET subkeys == Split(last_key, c.many_keys_delimiter)
                n == IF Len(subkeys) < Len(value.v) THEN Len(subkeys)
                     ELSE Len(value.v)
                w == SetMany(d, ptr, loc, SubSeq(subkeys, 1, n), value, 1, {},
                             c, g)
            IN IF w.res.outcome = "returned" /\ Len(subkeys) # Len(value.v)
               THEN [res |-> Raised("ValueError", g), dict |-> w.dict]
               ELSE w
  ELSE LET cp == copy(value, c.as_copy, c.self_as_copy)
           s == SetItem(ptr, StrV(last_key), cp.val)
       IN IF ~s.ok THEN [res |-> Raised(s.exc, g), dict |-> d]
          ELSE [res |-> [Returned(None,
                           IF cp.shared /\ IsComposite(cp.val)
                           THEN {[h |-> <<>>, d |-> Append(loc, StrV(last_key))]}
                           ELSE {},
                           g) EXCEPT !.wrote = TRUE],
                dict |-> UpdateAt(d, loc, s.val)]

\* the part of set after the walk: the assignment through pointer
SetLast(d, ptr, loc, last_key, value, c, g) ==
  IF Contains(last_key, c.many_keys_delimiter)
  THEN IF ~IsSeq(value) THEN [res |-> Raised("TypeError", g), dict |-> d]
       ELSE IF Len(Split(last_key, c.many_keys_delimiter)) # Len(value.v)
       THEN [res |-> Raised("ValueError", g), dict |-> d]
       ELSE SetMany(d, ptr, loc, Split(last_key, c.many_keys_delimiter), value,
                    1, {}, c, g)
  ELSE LET cp == copy(value, c.as_copy, c.self_as_copy)
           s == SetItem(ptr, StrV(last_key), cp.val)
       IN IF ~s.ok THEN [res |-> Raised(s.exc, g), dict |-> d]
          ELSE [res |-> [Returned(None,
                           IF cp.shared /\ IsComposite(cp.val)
                           THEN {[h |-> <<>>, d |-> Append(loc, StrV(last_key))]}
                           ELSE {},
                           g) EXCEPT !.wrote = TRUE],
                dict |-> UpdateAt(d, loc, s.val)]

\* the loop of set over keys[:-1], from step i on, then the assignment;
\* pointer is the object reached, loc its place in the dictionary (a pointer
\* that is not in the dictionary is the None that access made of a miss)
RECURSIVE SetLoop(_, _, _, _, _, _, _, _)
SetLoop(d, keys, i, pointer, loc, value, c, g) ==
  IF i >= Len(keys)
  THEN LET r == SetLast(d, pointer, loc, keys[Len(keys)], value, c, g)
       IN [r EXCEPT !.res.ptr = pointer, !.res.loc = loc, !.res.walked = TRUE]
  ELSE
    LET key == keys[i]
        Step(k, g1) ==
          LET k2 == IF IsSeq(pointer) THEN to_int(k) ELSE k
              a == access(pointer, k2, c.raise_none, NoDefault)
              g2 == NoteMiss(g1, i, "plain", a)
          IN IF a.raised THEN [res |-> Raised(a.exc, g2), dict |-> d]
             ELSE SetLoop(d, keys, i + 1, a.val,
                    Append(loc, NormKey(pointer, k2)), value, c, g2)
    IN IF IsPlaceholder(key)
       THEN IF DigitVal(key[2]) >= Len(c.selectors)
            THEN [res |-> Raised("IndexError", g), dict |-> d]
            ELSE LET s == index_of(pointer, c.selectors[DigitVal(key[2]) + 1],
                                   c.nonseq)
                     g1 == IF ~IsSeq(pointer) THEN [g EXCEPT !.nonseq = TRUE]
                           ELSE IF s.idx = 0 - 1 /\ g.selMiss = 0
                           THEN [g EXCEPT !.selMiss = i] ELSE g
                 IN IF ~s.ok THEN [res |-> Raised("TypeError", g1), dict |-> d]
                    ELSE IF s.idx = 0 - 1
                    THEN IF c.raise_none
                         THEN [res |-> Returned(None, {}, g1), dict |-> d]
                         ELSE [res |-> Raised("KeyError", g1), dict |-> d]
                    ELSE Step(IntV(s.idx), g1)
       ELSE Step(StrV(key), g)

\* set(key, value, copy=, raise_none=, nested_delimiter=,
\*     many_keys_delimiter=) on the dictionary d of an instance whose stored
\* copy option is self_as_copy: the outcome and the dictionary afterwards
SetOp(d, key, value, copy_, self_as_copy, raise_none_, nd, mkd, nonseq) ==
  LET p == Parse(key.v)
  IN IF ~p.ok THEN [res |-> Raised(p.exc, Seen0), dict |-> d]
     ELSE SetLoop(d, Split(p.key, nd), 1, d, <<>>, value,
            [selectors |-> p.selectors, raise_none |-> raise_none_,
             as_copy |-> copy_, self_as_copy |-> self_as_copy,
             many_keys_delimiter |-> mkd, nonseq |-> nonseq],
            Seen0)

-----------------------------------------------------------------------------
(* The caller's side: mutation of an object it holds *)

IsPrefix(p, q) == Len(p) <= Len(q) /\ SubSeq(q, 1, Len(p)) = p

\* the locations of the dicts and lists inside v (the objects that can be
\* mutated in place)
RECURSIVE MutableNodes(_)
MutableNodes(v) ==
  LET here == IF v.t \in {"dict", "list"} THEN {<<>>} ELSE {}
      below ==
        IF v.t = "dict"
        THEN UNION {{<<k>> \o p : p \in MutableNodes(v.v[k])} : k \in DOMAIN v.v}
        ELSE IF IsSeq(v)
        THEN UNION {{<<IntV(i - 1)>> \o p : p \in MutableNodes(v.v[i])} :
                      i \in 1..Len(v.v)}
        ELSE {}
  IN here \cup below

Mark == IntV(99)

\* obj["z"] = 99 on a dict, obj.append(99) on a list
Mutated(obj) ==
  IF obj.t = "dict" THEN SetItem(obj, StrV(<<"z">>), Mark).val
  ELSE ListV(Append(obj.v, Mark))

\* h after every linked place of it has been read again from the dictionary d
RECURSIVE Resync(_, _, _)
Resync(h, d, ls) ==
  IF ls = {} THEN h
  ELSE LET l == CHOOSE x \in ls : TRUE
       IN Resync(UpdateAt(h, l.h, ValueAt(d, l.d)), d, ls \ {l})

-----------------------------------------------------------------------------
(* Inputs: dictionaries, defaults, values, options *)

D(keys, vals) == DictV([k \in {StrV(keys[i]) : i \in 1..Len(keys)} |->
                   vals[CHOOSE i \in 1..Len(keys) : StrV(keys[i]) = k]])

Dict1 ==
  D(<<kA, kT, kAB>>,
    << D(<<kB>>, <<IntV(5)>>),
       ListV(<< D(<<kN, kA>>, <<IntV(2), IntV(7)>>),
                D(<<kN, kA>>, <<IntV(1), IntV(7)>>) >>),
       D(<<kC>>, <<IntV(0)>>) >>)

InitDicts == {Dict1}

Defaults == {NoDefault, None, D(<<kB, kA>>, <<IntV(1), IntV(2)>>)}

Values ==
  { IntV(9),
    ListV(<<IntV(1), D(<<kC>>, <<IntV(1)>>)>>),
    TupleV(<<IntV(1), IntV(2), IntV(3)>>) }

\* a keyword argument of a call: not given, or given as True or False
Keywords == {"unset", "true", "false"}
RaiseKeywords == {"unset", "false"}
Option(kw, stored) == IF kw = "unset" THEN stored ELSE kw = "true"

SetKeys == {StrV(p) : p \in Paths}
GetKeys == {None} \cup SetKeys

NestedDelimiters == {DEFAULT_NESTED_DELIMITER}
ManyKeysDelimiters == {DEFAULT_MANY_KEYS_DELIMITER}

-----------------------------------------------------------------------------
(* The state machine *)

NoCall ==
  [op |-> "none", key |-> None, default |-> NoDefault, value |-> None,
   copy_kw |-> "unset", as_copy |-> TRUE, raise_none |-> TRUE]

\* SmartDict(dictionary, **kwargs)
Init ==
  /\ dict \in InitDicts
  /\ as_copy \in BOOLEAN
  /\ raise_none \in BOOLEAN
  /\ nested_delimiter \in NestedDelimiters
  /\ many_keys_delimiter \in ManyKeysDelimiters
  /\ call = NoCall
  /\ res = Returned(None, {}, Seen0)
  /\ before = dict
  /\ held = None
  /\ links = {}
  /\ nops = 0
  /\ nmut = 0

\* options are set between calls, while the caller holds nothing
set_options(c, r, nd, mkd) ==
  /\ call.op = "none"
  /\ as_copy' = c
  /\ raise_none' = r
  /\ nested_delimiter' = nd
  /\ many_keys_delimiter' = mkd
  /\ UNCHANGED <<dict, call, res, before, held, links, nops, nmut>>

\* index_of on something that is no sequence may answer -1 or raise: both
\* outcomes of the call are possible then
get(key, default, copy_kw, raise_kw) ==
  /\ call.op = "none"
  /\ nops < MaxOps
  /\ LET r0 == GetOp(dict, key, default, Option(copy_kw, as_copy),
                     Option(raise_kw, raise_none), nested_delimiter,
                     many_keys_delimiter, "nomatch")
         rs == IF r0.seen.nonseq
               THEN {r0, GetOp(dict, key, default, Option(copy_kw, as_copy),
                               Option(raise_kw, raise_none), nested_delimiter,
                               many_keys_delimiter, "TypeError")}
               ELSE {r0}
     IN \E r \in rs :
          /\ res' = r
          /\ held' = r.ret
          /\ links' = r.at
  /\ call' = [op |-> "get", key |-> key, default |-> default, value |-> None,
              copy_kw |-> copy_kw, as_copy |-> Option(copy_kw, as_copy),
              raise_none |-> Option(raise_kw, raise_none)]
  /\ before' = dict
  /\ nops' = nops + 1
  /\ nmut' = nmut
  /\ UNCHANGED <<dict, as_copy, raise_none, nested_delimiter,
                 many_keys_delimiter>>

set(key, value, copy_kw, raise_kw) ==
  /\ call.op = "none"
  /\ nops < MaxOps
  /\ LET r0 == SetOp(dict, key, value, Option(copy_kw, as_copy), as_copy,
                     Option(raise_kw, raise_none), nested_delimiter,
                     many_keys_delimiter, "nomatch")
         rs == IF r0.res.seen.nonseq
               THEN {r0, SetOp(dict, key, value, Option(copy_kw, as_copy),
                               as_copy, Option(raise_kw, raise_none),
                               nested_delimiter, many_keys_delimiter,
                               "TypeError")}
               ELSE {r0}
     IN \E r \in rs :
          /\ res' = r.res
          /\ dict' = r.dict
          /\ links' = r.res.at
  /\ held' = value
  /\ call' = [op |-> "set", key |-> key, default |-> NoDefault, value |-> value,
              copy_kw |-> copy_kw, as_copy |-> Option(copy_kw, as_copy),
              raise_none |-> Option(raise_kw, raise_none)]
  /\ before' = dict
  /\ nops' = nops + 1
  /\ nmut' = nmut
  /\ UNCHANGED <<as_copy, raise_none, nested_delimiter, many_keys_delimiter>>

\* the caller mutates, in place, the dict or list at location m of the
\* object it holds; every place of the dictionary that is that object
\* changes with it
MutateHeld(m) ==
  /\ call.op # "none"
  /\ res.outcome = "returned"
  /\ nmut < MaxMutations
  /\ LET new == Mutated(ValueAt(held, m))
         via == {l \in links : IsPrefix(l.h, m)}
     IN IF via = {}
        THEN /\ held' = UpdateAt(held, m, new)
             /\ dict' = dict
        ELSE LET l == CHOOSE x \in via : TRUE
                 d2 == UpdateAt(dict,
                         l.d \o SubSeq(m, Len(l.h) + 1, Len(m)), new)
             IN /\ dict' = d2
                /\ held' = Resync(UpdateAt(held, m, new), d2, links)
  /\ nmut' = nmut + 1
  /\ UNCHANGED <<as_copy, raise_none, nested_delimiter, many_keys_delimiter,
                 call, res, before, links, nops>>

\* the caller lets go of what the last call gave it; the next call starts
\* from the dictionary as it is now
Forget ==
  /\ call.op # "none"
  /\ call' = NoCall
  /\ res' = Returned(None, {}, Seen0)
  /\ before' = dict
  /\ held' = None
  /\ links' = {}
  /\ nmut' = nmut
  /\ UNCHANGED <<dict, as_copy, raise_none, nested_delimiter,
                 many_keys_delimiter, nops>>

Next ==
  \/ \E c \in BOOLEAN, r \in BOOLEAN, nd \in NestedDelimiters,
        mkd \in ManyKeysDelimiters : set_options(c, r, nd, mkd)
  \/ \E key \in GetKeys, default \in Defaults,
        copy_kw \in Keywords, raise_kw \in RaiseKeywords :
       get(key, default, copy_kw, raise_kw)
  \/ \E key \in SetKeys, value \in Values,
        copy_kw \in Keywords, raise_kw \in RaiseKeywords :
       set(key, value, copy_kw, raise_kw)
  \/ \E m \in MutableNodes(held) : MutateHeld(m)
  \/ Forget

Spec == Init /\ [][Next]_vars

-----------------------------------------------------------------------------
(* The parser on its own: __split_key_selectors applied to paths of up to
   MaxSegments steps, with several selectors and the same selector more
   than once *)

selStr == <<"{", "b", ":", "x", "}">>
Segments == {kA, kT, selHit, selAny, selBoth, selStr, <<"{", "0", "}">>}
ParserPaths ==
  {Join(p) : p \in UNION {[1..n -> Segments] : n \in 1..MaxSegments}}

\* key, dictionary_selectors = self.__split_key_selectors(key): call holds
\* the path, res what the parser made of it
SplitKeySelectors(key) ==
  /\ call.op = "none"
  /\ call' = [NoCall EXCEPT !.op = "split", !.key = StrV(key)]
  /\ res' = split_key_selectors(key)
  /\ UNCHANGED <<dict, as_copy, raise_none, nested_delimiter,
                 many_keys_delimiter, before, held, links, nops, nmut>>

ParserNext == \E key \in ParserPaths : SplitKeySelectors(key)

ParserSpec == Init /\ [][ParserNext]_vars

-----------------------------------------------------------------------------
(* What the claims speak about, read off the last call *)

IsGet == call.op = "get" /\ call.key # None
IsSet == call.op = "set"
Parses == Parse(call.key.v).ok
\* the steps of the path of the call (when it parses)
Steps == Split(Parse(call.key.v).key, nested_delimiter)
LastStep == Steps[Len(Steps)]
LastIsFanOut == Contains(LastStep, many_keys_delimiter)
SubKeys == Split(LastStep, many_keys_delimiter)
\* the fan-out delimiter stands in a step before the last one
FanOutBeforeEnd ==
  \E i \in 1..(Len(Steps) - 1) : Contains(Steps[i], many_keys_delimiter)
\* what the access policy makes of a miss that is not raised
PolicyValue == IF call.default = NoDefault THEN None ELSE call.default
\* the caller has not touched the object it holds since the call
Untouched == held = (IF IsSet THEN call.value ELSE res.ret)
\* get(p), by reference, of the path of the last call on the dictionary as
\* it is now
ReadBack ==
  GetOp(dict, call.key, NoDefault, FALSE, call.raise_none, nested_delimiter,
        many_keys_delimiter, "nomatch")
\* what get(p) shows of a value v written by set(p, v)
Shown(v) == IF LastIsFanOut THEN TupleV(v.v) ELSE v
\* what the dictionary now holds where the set wrote
StoredAt(k) == GetItem(ValueAt(dict, res.loc), StrV(k)).val
Stored ==
  IF LastIsFanOut
  THEN TupleV([j \in 1..Len(SubKeys) |-> StoredAt(SubKeys[j])])
  ELSE StoredAt(LastStep)
\* no selector of the path tests a key that the last step writes
SelectorsKeepMatching ==
  \A i \in 1..Len(Parse(call.key.v).selectors) :
    \A j \in 1..Len(SubKeys) :
      StrV(SubKeys[j]) \notin DOMAIN Parse(call.key.v).selectors[i]

-----------------------------------------------------------------------------
(* Claims *)

\* C1: when a selector step of get finds no element of the current sequence
\* that matches all its fields, get returns the supplied default if there is
\* one, else raises if raise-on-missing is enabled, else returns None.
C1_SelectorMissPolicy ==
  (IsGet /\ res.seen.selMiss # 0) =>
    IF call.default # NoDefault
    THEN res.outcome = "returned" /\ res.ret = call.default
    ELSE IF call.raise_none THEN res.outcome = "raised"
    ELSE res.outcome = "returned" /\ res.ret = None

C3_ShortCircuit ==
  ( /\ IsGet
    /\ res.seen.missAt # 0
    /\ res.seen.missAt < Len(Steps)
    /\ (call.default # NoDefault \/ ~call.raise_none) ) =>
    (res.outcome = "returned" /\ res.ret = PolicyValue)

\* C4: when the steps before the last one all resolve (and no selector
\* among them tests the key written) and the last step is
\* a key on a mapping pointer, an in-range index on a sequence pointer, or
\* a fan-out group on a mapping pointer with a value of that arity, set
\* succeeds, a following get of the same path returns the value, and the
\* sequence pointer keeps its length.
C4_Writable ==
  /\ IsSet /\ Parses /\ res.walked
  /\ res.seen.missAt = 0
  /\ ~FanOutBeforeEnd
  /\ SelectorsKeepMatching
  /\ \/ res.ptr.t = "dict" /\ ~LastIsFanOut /\ ~IsPlaceholder(LastStep)
     \/ /\ IsSeq(res.ptr)
        /\ ~LastIsFanOut
        /\ to_int(StrV(LastStep)) # None
        /\ Pos(to_int(StrV(LastStep)).v, Len(res.ptr.v)) \in 1..Len(res.ptr.v)
     \/ /\ res.ptr.t = "dict"
        /\ LastIsFanOut
        /\ IsSeq(call.value)
        /\ Len(SubKeys) = Len(call.value.v)

C4_RoundTrip ==
  (C4_Writable /\ Untouched) =>
    /\ res.outcome = "returned"
    /\ res.wrote
    /\ ReadBack.outcome = "returned"
    /\ ReadBack.ret = Shown(call.value)
    /\ IsSeq(res.ptr) => Len(ValueAt(dict, res.loc).v) = Len(res.ptr.v)

\* C5: when a step of set before the last one fails to resolve (absent key,
\* index out of range, wrong kind, selector without a match) and
\* raise-on-missing is disabled, set raises nothing, returns None and
\* leaves the dictionary as it was.
C5_SetNoRaiseNoOp ==
  (IsSet /\ ~call.raise_none
     /\ (res.seen.missAt # 0 \/ res.seen.selMiss # 0)) =>
    /\ res.outcome = "returned"
    /\ res.ret = None
    /\ ~res.wrote
    /\ dict = before

\* C6: after a set in copy mode the stored value shares nothing with the
\* value passed in (the dictionary still holds the value as it was passed,
\* whatever the caller does to its object afterwards); after a set called
\* with copy=False, whatever the stored copy option, the stored value is
\* the caller's object (the dictionary holds the object as it is now).
C6_WriteCopyPolicy ==
  (C4_Writable /\ res.wrote) =>
    /\ call.as_copy => (links = {} /\ Stored = Shown(call.value))
    /\ call.copy_kw = "false" =>
         /\ Stored = Shown(held)
         /\ (IsComposite(call.value) /\ ~LastIsFanOut) => links # {}

\* C7: a set whose last step is a fan-out group of n subkeys and whose value
\* is not a list or tuple of n elements raises, whatever raise-on-missing is
\* and whether or not the earlier steps resolve.
C7_ArityAlwaysRaised ==
  ( /\ IsSet /\ Parses /\ LastIsFanOut
    /\ ~(IsSeq(call.value) /\ Len(call.value.v) = Len(SubKeys)) ) =>
    res.outcome = "raised"

\* C8: a get whose path has the fan-out delimiter in a step before the last
\* one raises, for every default and raise-on-missing, also when an earlier
\* step is missing or is a selector without a match.
C8_GetFanOutBeforeEnd ==
  (IsGet /\ Parses /\ FanOutBeforeEnd) => res.outcome = "raised"

\* C9: a set whose path has the fan-out delimiter in a step before the last
\* one raises and leaves the dictionary as it was.
C9_SetFanOutBeforeEnd ==
  (IsSet /\ Parses /\ FanOutBeforeEnd) =>
    (res.outcome = "raised" /\ dict = before)

\* C10: whenever set raises, the dictionary is what it was before the call;
\* and a fan-out set that changed the dictionary wrote every one of its
\* subkeys.
C10_FailedSetNoWrite ==
  /\ (IsSet /\ res.outcome = "raised") => dict = before
  /\ (IsSet /\ Parses /\ LastIsFanOut /\ Untouched /\ dict # before) =>
       \A j \in 1..Len(SubKeys) :
         /\ j <= Len(call.value.v)
         /\ GetItem(ValueAt(dict, res.loc), StrV(SubKeys[j])) =
              Ok(call.value.v[j])

C10_Witness ==
  /\ IsSet
  /\ res.outcome = "raised"
  /\ res.exc = "ValueError"
  /\ res.ptr.t = "dict"
  /\ LastIsFanOut

\* the get of the last call, made again with the same arguments on the
\* dictionary as it is now
GetAgain ==
  GetOp(dict, call.key, call.default, call.as_copy, call.raise_none,
        nested_delimiter, many_keys_delimiter, "nomatch")
\* the caller has changed, in place, the object the last call gave it
HeldMutated == nmut > 0 /\ held # res.ret

\* C11: what a get in copy mode returns (the whole dictionary, the value of
\* a path, the elements of a fan-out tuple) shares nothing with the stored
\* dictionary: whatever the caller does to it, the dictionary stays as it
\* was and the same get returns the first result again; what a get in
\* reference mode returns is, for every dict or list found in the
\* dictionary, the stored object itself: a change the caller makes to it is
\* in the dictionary and in the result of the same get.
C11_ReadCopySemantics ==
  (call.op = "get" /\ res.outcome = "returned") =>
    IF call.as_copy
    THEN /\ links = {}
         /\ dict = before
         /\ LET again == GetAgain
            IN again.outcome = "returned" /\ again.ret = res.ret
    ELSE /\ \A l \in links : ValueAt(dict, l.d) = ValueAt(held, l.h)
         /\ (res.seen.missAt = 0 /\ res.seen.selMiss = 0) =>
              /\ LET again == GetAgain
                 IN again.outcome = "returned" /\ again.ret = held
              /\ (IsComposite(res.ret) /\ res.ret.t # "tuple") =>
                   \E l \in links : l.h = <<>> /\ ValueAt(dict, l.d) = held

\* a get in copy mode returned a dict or a list of the dictionary, or a
\* tuple holding one, and the caller has changed it
C11_Witness ==
  /\ call.op = "get"
  /\ call.as_copy
  /\ res.outcome = "returned"
  /\ res.seen.missAt = 0
  /\ HeldMutated

\* a get in reference mode returned a stored dict or list, the caller has
\* changed it, and the dictionary has changed with it
C11_WitnessReference ==
  /\ IsGet
  /\ ~call.as_copy
  /\ res.outcome = "returned"
  /\ HeldMutated
  /\ dict # before

\* the first selector of the path of the call, as it is written: where it
\* opens and closes, its text, its field:value clauses
SelOpen == MinOf({i \in 1..Len(call.key.v) : call.key.v[i] = "{"})
SelClose == MinOf({i \in 1..Len(call.key.v) : call.key.v[i] = "}"})
SelText == SubSeq(call.key.v, SelOpen + 1, SelClose - 1)
SelClauses == [i \in 1..Len(Split(SelText, ",")) |->
                 Split(Split(SelText, ",")[i], ":")]
\* the value a clause asks for: an integer when it is written as one
Wanted(v) == IF to_int(StrV(v)) # None THEN to_int(StrV(v)) ELSE StrV(v)
\* element e has the field of clause c with the value it asks for
Fits(e, c) ==
  e.t = "dict" /\ StrV(c[1]) \in DOMAIN e.v /\ e.v[StrV(c[1])] = Wanted(c[2])
\* what the steps before the selector resolve to in the dictionary
SelTarget ==
  GetOp(before, StrV(SubSeq(call.key.v, 1, SelOpen - 2)), NoDefault, FALSE,
        TRUE, nested_delimiter, many_keys_delimiter, "nomatch")
\* the positions of the elements of the sequence that fit every clause
SelHits ==
  LET seq == SelTarget.ret.v
      clauses == SelClauses
  IN {j \in 1..Len(seq) : \A i \in 1..Len(clauses) : Fits(seq[j], clauses[i])}
\* a get whose path has one selector step, applied to a sequence of the
\* dictionary in which some element fits all its clauses
SelectorApplies ==
  /\ IsGet /\ Parses /\ ~FanOutBeforeEnd
  /\ Len(Parse(call.key.v).selectors) = 1
  /\ SelOpen > 2
  /\ call.key.v[SelOpen - 1] = nested_delimiter
  /\ LET target == SelTarget
     IN target.outcome = "returned" /\ IsSeq(target.ret)
  /\ SelHits # {}
\* the same get with the selector replaced by the index of the first
\* element that fits every clause
GetByIndex ==
  GetOp(before,
        StrV(SubSeq(call.key.v, 1, SelOpen - 1)
             \o NatToDigits(MinOf(SelHits) - 1)
             \o SubSeq(call.key.v, SelClose + 1, Len(call.key.v))),
        call.default, call.as_copy, call.raise_none,
        nested_delimiter, many_keys_delimiter, "nomatch")

C12_WitnessLowest ==
  /\ SelectorApplies
  /\ Cardinality(SelHits) > 1
  /\ res.outcome = "returned"
  /\ res.ret = IntV(2)

\* the selectors of the path given to the parser, as they are written: the
\* i-th one opens at the i-th "{" and closes at the i-th "}"
Braces(c) == {i \in 1..Len(call.key.v) : call.key.v[i] = c}
Nth(S, i) == CHOOSE p \in S : Cardinality({q \in S : q < p}) = i - 1
NSelectors == Cardinality(Braces("{"))
OpenAt(i) == Nth(Braces("{"), i)
CloseAt(i) == Nth(Braces("}"), i)
TextOf(i) == SubSeq(call.key.v, OpenAt(i) + 1, CloseAt(i) - 1)
ClausesOf(i) == [j \in 1..Len(Split(TextOf(i), ",")) |->
                   Split(Split(TextOf(i), ",")[j], ":")]
\* every selector is closed before the next one opens and is a list of
\* field:value clauses, no field twice
WellFormed ==
  /\ Cardinality(Braces("}")) = NSelectors
  /\ \A i \in 1..NSelectors :
       /\ OpenAt(i) < CloseAt(i)
       /\ i < NSelectors => CloseAt(i) < OpenAt(i + 1)
       /\ \A j \in 1..Len(ClausesOf(i)) : Len(ClausesOf(i)[j]) = 2
       /\ \A j, k \in 1..Len(ClausesOf(i)) :
            ClausesOf(i)[j][1] = ClausesOf(i)[k][1] => j = k
\* the dict the i-th selector stands for
DictOf(i) ==
  [f \in {StrV(ClausesOf(i)[j][1]) : j \in 1..Len(ClausesOf(i))} |->
     Wanted(ClausesOf(i)[CHOOSE j \in 1..Len(ClausesOf(i)) :
                           StrV(ClausesOf(i)[j][1]) = f][2])]
\* the path up to the end of the i-th selector, with selector j (from 1)
\* replaced by the placeholder {j-1} where it stands
RECURSIVE Placed(_)
Placed(i) ==
  IF i = 0
  THEN SubSeq(call.key.v, 1,
              IF NSelectors = 0 THEN Len(call.key.v) ELSE OpenAt(1) - 1)
  ELSE Placed(i - 1) \o <<"{">> \o NatToDigits(i - 1) \o <<"}">>
         \o SubSeq(call.key.v, CloseAt(i) + 1,
                   IF i = NSelectors THEN Len(call.key.v)
                   ELSE OpenAt(i + 1) - 1)

\* C13: for a path with k well-formed selectors the parser returns k
\* selector dicts, in the order the selectors stand in the path, and the
\* path with the i-th selector (from 0) replaced by the placeholder {i} at
\* its own place, every other character as it was; also when the same
\* selector text stands in the path more than once.
C13_PlaceholderDiscipline ==
  (call.op = "split" /\ WellFormed) =>
    /\ res.ok
    /\ Len(res.selectors) = NSelectors
    /\ \A i \in 1..NSelectors : res.selectors[i] = DictOf(i)
    /\ res.key = Placed(NSelectors)

\* the parser was given a path with three selectors, the first and the
\* last of them the same text
C13_Witness ==
  /\ call.op = "split"
  /\ WellFormed
  /\ NSelectors = 3
  /\ TextOf(1) = TextOf(3)
  /\ TextOf(1) # TextOf(2)
  /\ res.ok
  /\ res.key = Join(<< <<"{", "0", "}">>, <<"{", "1", "}">>, <<"{", "2", "}">> >>)

====
